---- MODULE Spec2Model ----
(***************************************************************************)
(* Lap tracking of the 1Lap monitor: the opponent tracker                  *)
(* (src.opponent_tracker, exercised by tests/test_opponent_tracker.py),    *)
(* the local lap tracker (src/session_manager.py) and the polling loop     *)
(* (src/telemetry_loop.py).                                                *)
(***************************************************************************)
EXTENDS Integers, Sequences, FiniteSets, TLC

\* ------------------------------------------------------------------ bounds
MaxLap == 3
MaxSamples == 2
MaxLocalLap == 2
MaxLapSamples == 2
MaxSessions == 2
MaxPeriodFetches == 2

\* --------------------------------------------------------------- constants
\* mControl: -1=nobody, 0=local, 1=AI, 2=remote, 3=replay
ControlNone == 0 - 1
ControlLocal == 0
ControlAI == 1
ControlRemote == 2
ControlReplay == 3
Controls == {ControlNone, ControlLocal, ControlAI, ControlRemote, ControlReplay}

\* fastest_lap_time of an entry that has no fastest lap yet (None)
NoFastest == 0 - 1
\* track length used when the sample supplies none; 0 stands for "not supplied"
DefaultTrackLength == 5000
NoTrackLength == 0

Drivers == {"Alice", "Bob"}
Laps == 1..MaxLap
\* lap distances [m]: 100 is within 5% of any track length used here, 300 only of 8000
Distances == {100, 300}
\* reported times of the previous lap [s]
LapTimes == {92, 120}
TrackLengths == {NoTrackLength, 8000}
\* time into the running lap [s] that a sample carries next to last_lap_time
RunningLapTime == 5

VARIABLES
    \* OpponentTracker
    opponents,          \* driver name -> entry, for the drivers tracked so far
    track_remote_only,  \* configuration
    track_ai,           \* configuration
    completed,          \* the list the last update_opponent call returned
    opp_call,           \* the last call on the tracker: driver, control, lap, path taken
    last_emitted,       \* driver name -> lap time of the last lap emitted since reset()
    last_emitted_lap,   \* driver name -> lap number of that lap, 0 if none
    tracked_since_reset, \* the drivers of the tracked samples received since reset()
    \* SessionManager
    state,              \* SessionState
    current_lap,
    current_session_id, \* NoSession (None) or a generated id
    lap_samples,        \* buffer of the current lap
    \* TelemetryLoop
    running,            \* _running
    paused,             \* _paused
    has_callback,       \* config: on_lap_complete is set
    \* what the last call did
    last_op,            \* the operation called last
    tick_in,            \* what the collaborators returned to the last run_once
    ret,                \* what the last call returned
    cb_calls,           \* the on_lap_complete invocations of the last run_once
    clock,              \* number of session ids generated so far
    \* TelemetryLoop.run() in its own thread
    pc,                 \* where run() stands; "idle" while run() was not invoked
    stop_requested,     \* stop() was called after run() was invoked
    read_since,         \* samples read since the last lap boundary (saturating)
    \* DashboardPublisher
    connected,
    session_id,         \* "auto", or an id
    pub_call,           \* the last call on the publisher and what it emitted
    \* Monitor
    mon_running,        \* Monitor.running
    setup_sent,
    period_fetches,     \* _send_setup calls since the process was last seen absent
    mon_pc,             \* where Monitor.start() stands
    mon_call            \* what the last iteration of the main loop did

oppVars == <<opponents, track_remote_only, track_ai, completed, opp_call, last_emitted,
             last_emitted_lap, tracked_since_reset>>
smVars == <<state, current_lap, current_session_id, lap_samples>>
loopVars == <<running, paused, has_callback, tick_in, cb_calls, clock>>
runVars == <<pc, stop_requested, read_since>>
pubVars == <<connected, session_id, pub_call>>
monVars == <<mon_running, setup_sent, period_fetches, mon_pc, mon_call>>
vars == <<opponents, track_remote_only, track_ai, completed, opp_call, last_emitted,
          last_emitted_lap, tracked_since_reset,
          state, current_lap, current_session_id, lap_samples,
          running, paused, has_callback, last_op, tick_in, ret, cb_calls, clock,
          pc, stop_requested, read_since, connected, session_id, pub_call,
          mon_running, setup_sent, period_fetches, mon_pc, mon_call>>

\* ------------------------------------------------------- OpponentTracker
\* the raw samples fed to the tracker under the default configuration: every
\* shape for Alice as a remote vehicle, samples of her under control tags that
\* are not tracked, and a second driver, Bob, on his first lap
RawSamples ==
    [driver_name : {"Alice"}, control : {ControlRemote}, lap : Laps,
     lap_distance : Distances, lap_time : {RunningLapTime},
     last_lap_time : LapTimes, track_length : TrackLengths]
    \cup
    [driver_name : {"Alice"}, control : {ControlLocal, ControlAI},
     lap : 1..2, lap_distance : {100}, lap_time : {RunningLapTime},
     last_lap_time : {92}, track_length : {NoTrackLength}]
    \cup
    [driver_name : {"Bob"}, control : {ControlLocal, ControlRemote}, lap : {1},
     lap_distance : {100}, lap_time : {RunningLapTime}, last_lap_time : {92},
     track_length : {NoTrackLength}]

\* the raw samples fed to the tracker under every configuration: both drivers
\* under every control tag
CfgSamples ==
    [driver_name : Drivers, control : Controls, lap : 1..2,
     lap_distance : {100}, lap_time : {RunningLapTime}, last_lap_time : LapTimes,
     track_length : {NoTrackLength}]

AllSamples == RawSamples \cup CfgSamples

\* lap distances [m] on both sides of 5% of 5000 m and of 8000 m
BoundaryDistances == {0, 249, 250, 251, 399, 400}

\* the raw samples fed to the tracker around the lap-start threshold
BoundarySamples ==
    [driver_name : {"Alice"}, control : {ControlRemote}, lap : 1..2,
     lap_distance : BoundaryDistances, lap_time : {RunningLapTime},
     last_lap_time : {92}, track_length : TrackLengths]

\* a tracker that follows replays whenever it is not restricted to remote vehicles
ShouldTrackReplayToo(control) ==
    CASE control = ControlRemote -> TRUE
      [] control = ControlAI -> track_ai
      [] control = ControlReplay -> ~track_remote_only
      [] OTHER -> FALSE

\* a tracker that decides on AI vehicles by track_remote_only instead of track_ai
ShouldTrackAIUnlessRemoteOnly(control) ==
    CASE control = ControlRemote -> TRUE
      [] control = ControlAI -> ~track_remote_only
      [] OTHER -> FALSE

\* _should_track(control)
ShouldTrack(control) ==
    CASE control = ControlRemote -> TRUE
      [] control = ControlAI -> track_ai
      [] OTHER -> FALSE

\* the sample in canonical form, as it is buffered
Normalize(raw) ==
    [Lap |-> raw.lap, LapDistance |-> raw.lap_distance]

TrackLengthOf(raw) ==
    IF raw.track_length = NoTrackLength THEN DefaultTrackLength ELSE raw.track_length

\* a lap-start zone that includes its far end
IsLapStartInclusive(raw) == raw.lap_distance * 100 <= 5 * TrackLengthOf(raw)

\* lap-distance within 5% of the track length from the start line
IsLapStart(raw) == raw.lap_distance * 100 < 5 * TrackLengthOf(raw)

\* an entry created as if the driver had been on the previous lap
NewEntryOnPreviousLap(raw) ==
    [current_lap |-> raw.lap - 1, samples |-> <<>>, seen_lap_start |-> FALSE,
     fastest_lap_time |-> NoFastest]

\* the entry created on first sight of a driver
NewEntry(raw) ==
    [current_lap |-> raw.lap, samples |-> <<>>, seen_lap_start |-> FALSE,
     fastest_lap_time |-> NoFastest]

\* a flag that follows the latest sample only
DetectLapStartLatestOnly(entry, raw) ==
    [entry EXCEPT !.seen_lap_start = IsLapStart(raw)]

\* step 4: lap-start detection
DetectLapStart(entry, raw) ==
    IF IsLapStart(raw) THEN [entry EXCEPT !.seen_lap_start = TRUE] ELSE entry

\* a completed lap that takes the running lap time of the triggering sample
CompletedLapRunningTime(name, entry, raw) ==
    [driver_name |-> name, lap_number |-> entry.current_lap,
     lap_time |-> raw.lap_time, samples |-> entry.samples, is_fastest |-> TRUE]

\* the CompletedLap built at a +1 transition
CompletedLap(name, entry, raw) ==
    [driver_name |-> name, lap_number |-> entry.current_lap,
     lap_time |-> raw.last_lap_time, samples |-> entry.samples, is_fastest |-> TRUE]

\* every completed lap counts as the fastest
IsFasterAlways(lap_time, fastest) == TRUE

\* a lap equal to the fastest counts as faster
IsFasterOrEqual(lap_time, fastest) == fastest = NoFastest \/ lap_time <= fastest

\* strictly faster than the entry's fastest lap, or the first one
IsFaster(lap_time, fastest) == fastest = NoFastest \/ lap_time < fastest

\* any change of the lap index counts as a completion
IsCompletionOnAnyChange(entry, raw) == raw.lap # entry.current_lap

\* step 5: the incoming lap is exactly current_lap + 1
IsCompletion(entry, raw) == raw.lap = entry.current_lap + 1

\* a reset that leaves seen_lap_start cleared whatever the triggering sample says
CompleteLapFlagCleared(name, entry, raw) ==
    LET emit == entry.seen_lap_start
                /\ IsFaster(raw.last_lap_time, entry.fastest_lap_time)
    IN [entry |-> [current_lap |-> raw.lap,
                   samples |-> <<>>,
                   seen_lap_start |-> FALSE,
                   fastest_lap_time |-> IF emit THEN raw.last_lap_time
                                        ELSE entry.fastest_lap_time],
        laps |-> IF emit THEN <<CompletedLap(name, entry, raw)>> ELSE <<>>,
        path |-> IF ~entry.seen_lap_start THEN "partial"
                 ELSE IF emit THEN "fastest" ELSE "slower"]

\* step 5, exactly +1: the entry after the reset, the laps emitted, the path taken
CompleteLap(name, entry, raw) ==
    LET emit == entry.seen_lap_start
                /\ IsFaster(raw.last_lap_time, entry.fastest_lap_time)
    IN [entry |-> [current_lap |-> raw.lap,
                   samples |-> <<>>,
                   seen_lap_start |-> IsLapStart(raw),
                   fastest_lap_time |-> IF emit THEN raw.last_lap_time
                                        ELSE entry.fastest_lap_time],
        laps |-> IF emit THEN <<CompletedLap(name, entry, raw)>> ELSE <<>>,
        path |-> IF ~entry.seen_lap_start THEN "partial"
                 ELSE IF emit THEN "fastest" ELSE "slower"]

\* step 5, any other change: resynchronization
Resync(entry, raw) ==
    [entry |-> [entry EXCEPT !.current_lap = raw.lap],
     laps |-> <<>>,
     path |-> "resync"]

\* step 5: lap-boundary evaluation
EvaluateBoundary(name, entry, raw) ==
    IF IsCompletion(entry, raw)
    THEN CompleteLap(name, entry, raw)
    ELSE Resync(entry, raw)

\* step 6: append the normalized sample
AppendSample(entry, raw) ==
    [entry EXCEPT !.samples = Append(@, Normalize(raw))]

\* steps 3-7 for a tracked sample
TrackSample(opps, raw) ==
    LET name == raw.driver_name
        known == name \in DOMAIN opps
        entry == IF known THEN opps[name] ELSE NewEntry(raw)
        ev == EvaluateBoundary(name, DetectLapStart(entry, raw), raw)
        after == AppendSample(ev.entry, raw)
    IN [opponents |-> [d \in DOMAIN opps \cup {name} |->
                          IF d = name THEN after ELSE opps[d]],
        laps |-> ev.laps,
        path |-> IF known THEN ev.path ELSE "created"]

\* update_opponent(raw_sample, timestamp)
UpdateOpponent(raw) ==
    LET r == IF ShouldTrack(raw.control)
             THEN TrackSample(opponents, raw)
             ELSE [opponents |-> opponents, laps |-> <<>>, path |-> "rejected"]
    IN /\ \A d \in DOMAIN r.opponents : Len(r.opponents[d].samples) <= MaxSamples
       /\ opponents' = r.opponents
       /\ completed' = r.laps
       /\ opp_call' = [driver_name |-> raw.driver_name, control |-> raw.control,
                       lap |-> raw.lap, path |-> r.path]
       /\ last_emitted' = [d \in Drivers |->
                              IF r.laps # <<>> /\ d = raw.driver_name
                              THEN r.laps[1].lap_time ELSE last_emitted[d]]
       /\ last_emitted_lap' = [d \in Drivers |->
                                  IF r.laps # <<>> /\ d = raw.driver_name
                                  THEN r.laps[1].lap_number ELSE last_emitted_lap[d]]
       /\ tracked_since_reset' = IF ShouldTrack(raw.control)
                                 THEN tracked_since_reset \cup {raw.driver_name}
                                 ELSE tracked_since_reset
       /\ UNCHANGED <<track_remote_only, track_ai>>
       /\ UNCHANGED <<smVars, loopVars, last_op, ret, runVars, pubVars, monVars>>

\* a reset that keeps the entries
ResetKeepsEntries ==
    /\ opponents' = opponents
    /\ completed' = <<>>
    /\ opp_call' = [driver_name |-> "", control |-> ControlNone, lap |-> 0,
                    path |-> "reset"]
    /\ last_emitted' = [d \in Drivers |-> NoFastest]
    /\ last_emitted_lap' = [d \in Drivers |-> 0]
    /\ tracked_since_reset' = {}
    /\ UNCHANGED <<track_remote_only, track_ai>>
    /\ UNCHANGED <<smVars, loopVars, last_op, ret, runVars, pubVars, monVars>>

\* reset()
Reset ==
    /\ opponents' = <<>>
    /\ completed' = <<>>
    /\ opp_call' = [driver_name |-> "", control |-> ControlNone, lap |-> 0,
                    path |-> "reset"]
    /\ last_emitted' = [d \in Drivers |-> NoFastest]
    /\ last_emitted_lap' = [d \in Drivers |-> 0]
    /\ tracked_since_reset' = {}
    /\ UNCHANGED <<track_remote_only, track_ai>>
    /\ UNCHANGED <<smVars, loopVars, last_op, ret, runVars, pubVars, monVars>>

\* get_opponent_count()
GetOpponentCount == Cardinality(DOMAIN opponents)

\* -------------------------------------------------------- SessionManager
SessionStates == {"idle", "detected", "logging", "paused", "error"}

\* current_session_id = None
NoSession == 0

LocalLaps == 0..MaxLocalLap

\* a telemetry dict without a 'lap' key
EmptyTelemetry == [has_lap |-> FALSE, lap |-> 0]

\* the telemetry dicts read() returns: with a 'lap' key, or without one
Telemetry == [has_lap : {TRUE}, lap : LocalLaps] \cup {EmptyTelemetry}

\* telemetry.get('lap', 0)
GetLap(telemetry) == IF telemetry.has_lap THEN telemetry.lap ELSE 0

\* an update that signals a completion only when the lap index moves forward
UpdateForwardOnly(lap, telemetry) ==
    [lap_completed |-> GetLap(telemetry) > lap /\ lap > 0,
     current_lap |-> GetLap(telemetry)]

\* SessionManager.update against the stored lap: the events and the lap stored afterwards
Update(lap, telemetry) ==
    [lap_completed |-> GetLap(telemetry) # lap /\ lap > 0,
     current_lap |-> GetLap(telemetry)]

\* SessionManager.get_lap_summary (lap and sample count)
GetLapSummary(lap, samples) ==
    IF samples = <<>> THEN [empty |-> TRUE, lap |-> 0, samples_count |-> 0]
    ELSE [empty |-> FALSE, lap |-> lap, samples_count |-> Len(samples)]

NoneRet == [kind |-> "none"]

NoTick ==
    [proc |-> FALSE, avail |-> "na", rd |-> "na", telemetry |-> EmptyTelemetry,
     cb |-> "na"]

\* a call that is no run_once leaves nothing of the last tick
NotATick(op) ==
    /\ last_op' = op
    /\ tick_in' = NoTick
    /\ cb_calls' = <<>>

\* SessionManager.update(telemetry), called directly
SMUpdate(telemetry) ==
    /\ current_lap' = Update(current_lap, telemetry).current_lap
    /\ ret' = [kind |-> "events",
               lap_completed |-> Update(current_lap, telemetry).lap_completed]
    /\ NotATick("update")
    /\ UNCHANGED <<state, current_session_id, lap_samples, running, paused,
                   has_callback, clock, oppVars,
                   runVars, pubVars, monVars>>

\* SessionManager.add_sample(telemetry), called directly
SMAddSample(telemetry) ==
    /\ Len(lap_samples) < MaxLapSamples
    /\ lap_samples' = Append(lap_samples, telemetry)
    /\ ret' = NoneRet
    /\ NotATick("add_sample")
    /\ UNCHANGED <<state, current_lap, current_session_id, running, paused,
                   has_callback, clock, oppVars,
                   runVars, pubVars, monVars>>

\* SessionManager.clear_lap_buffer(), called directly
SMClearLapBuffer ==
    /\ lap_samples' = <<>>
    /\ ret' = NoneRet
    /\ NotATick("clear_lap_buffer")
    /\ UNCHANGED <<state, current_lap, current_session_id, running, paused,
                   has_callback, clock, oppVars,
                   runVars, pubVars, monVars>>

\* --------------------------------------------------------- TelemetryLoop
\* start()
Start ==
    /\ running' = TRUE
    /\ paused' = FALSE
    /\ ret' = NoneRet
    /\ NotATick("start")
    /\ UNCHANGED <<smVars, has_callback, clock, oppVars,
                   runVars, pubVars, monVars>>

\* stop()
Stop ==
    /\ running' = FALSE
    /\ ret' = NoneRet
    /\ NotATick("stop")
    /\ stop_requested' = (stop_requested \/ pc # "idle")
    /\ UNCHANGED <<smVars, paused, has_callback, clock, oppVars,
                   pc, read_since, pubVars, monVars>>

\* pause()
Pause ==
    /\ paused' = TRUE
    /\ state' = "paused"
    /\ ret' = NoneRet
    /\ NotATick("pause")
    /\ UNCHANGED <<current_lap, current_session_id, lap_samples, running,
                   has_callback, clock, oppVars,
                   runVars, pubVars, monVars>>

\* resume()
Resume ==
    /\ paused' = FALSE
    /\ state' = IF state = "paused" THEN "logging" ELSE state
    /\ ret' = NoneRet
    /\ NotATick("resume")
    /\ UNCHANGED <<current_lap, current_session_id, lap_samples, running,
                   has_callback, clock, oppVars,
                   runVars, pubVars, monVars>>

\* run_once: the status dict as first built, and the objects the tick works on
Frame ==
    [state |-> state, current_lap |-> current_lap,
     current_session_id |-> current_session_id, lap_samples |-> lap_samples,
     running |-> running, paused |-> paused, clock |-> clock, cb_calls |-> <<>>,
     status |-> [kind |-> "status", state |-> state, process_detected |-> FALSE,
                 telemetry_available |-> FALSE, lap |-> current_lap,
                 samples_buffered |-> Len(lap_samples), lap_completed |-> FALSE,
                 error |-> FALSE]]

\* no process: the state goes to idle and the buffer is kept
GoIdleKeepBuffer(f) ==
    IF f.state # "idle" THEN [f EXCEPT !.state = "idle"] ELSE f

\* run_once, no process -> go to IDLE
GoIdle(f) ==
    IF f.state # "idle" THEN [f EXCEPT !.state = "idle", !.lap_samples = <<>>] ELSE f

\* run_once, process detected
Detect(f) ==
    IF f.state = "idle" THEN [f EXCEPT !.state = "detected"] ELSE f

\* run_once, start logging if we haven't already; generate_session_id
StartLogging(f) ==
    IF f.state = "detected"
    THEN [f EXCEPT !.state = "logging", !.current_session_id = f.clock + 1,
                   !.clock = f.clock + 1]
    ELSE f

\* an exception in the tick also ends the loop
FailAndStop(f) ==
    [f EXCEPT !.state = "error", !.status.state = "error", !.status.error = TRUE,
              !.running = FALSE]

\* run_once, except Exception
Fail(f) ==
    [f EXCEPT !.state = "error", !.status.state = "error", !.status.error = TRUE]

\* the callback is called whenever a lap completes, also with no lap data
CallbackDueAlways(f, completed_now) == completed_now /\ has_callback

\* run_once: if self.on_lap_complete and len(lap_data) > 0
CallbackDue(f, completed_now) ==
    completed_now /\ has_callback /\ Len(f.lap_samples) > 0

\* on_lap_complete(lap_data, lap_summary): the consumer returns, raises, or calls
\* stop() or pause() on the loop before it returns
InvokeCallback(f, cb, lap_data, lap_summary) ==
    LET g == [f EXCEPT !.cb_calls =
                  Append(@, [lap_data |-> lap_data, lap_summary |-> lap_summary])]
    IN CASE cb = "stop" -> [g EXCEPT !.running = FALSE]
         [] cb = "pause" -> [g EXCEPT !.paused = TRUE, !.state = "paused"]
         [] OTHER -> g

\* run_once, update status
Finish(f) ==
    [f EXCEPT !.status.state = f.state, !.status.lap = f.current_lap,
              !.status.samples_buffered = Len(f.lap_samples)]

\* a tick that gives up as soon as it finds the loop stopped
ProcessAbortOnStop(f, telemetry, cb) ==
    LET ev == Update(f.current_lap, telemetry)
        f1 == [f EXCEPT !.current_lap = ev.current_lap]
    IN IF ev.lap_completed
       THEN LET f2 == [f1 EXCEPT !.status.lap_completed = TRUE]
                lap_data == f2.lap_samples
                lap_summary == GetLapSummary(f2.current_lap, f2.lap_samples)
                due == CallbackDue(f2, TRUE)
                f3 == IF due THEN InvokeCallback(f2, cb, lap_data, lap_summary)
                      ELSE f2
            IN IF due /\ cb = "raise"
               THEN Fail(f3)
               ELSE IF ~f3.running THEN Finish(f3)
               ELSE Finish([f3 EXCEPT !.lap_samples = <<telemetry>>])
       ELSE IF ~f1.running THEN Finish(f1)
       ELSE Finish([f1 EXCEPT !.lap_samples = Append(@, telemetry)])

\* run_once, the try body once read() returned a telemetry dict
Process(f, telemetry, cb) ==
    LET ev == Update(f.current_lap, telemetry)
        f1 == [f EXCEPT !.current_lap = ev.current_lap]
    IN IF ev.lap_completed
       THEN LET f2 == [f1 EXCEPT !.status.lap_completed = TRUE]
                lap_data == f2.lap_samples
                lap_summary == GetLapSummary(f2.current_lap, f2.lap_samples)
                due == CallbackDue(f2, TRUE)
                f3 == IF due THEN InvokeCallback(f2, cb, lap_data, lap_summary)
                      ELSE f2
            IN IF due /\ cb = "raise"
               THEN Fail(f3)
               ELSE Finish([f3 EXCEPT !.lap_samples = <<telemetry>>])
       ELSE Finish([f1 EXCEPT !.lap_samples = Append(@, telemetry)])

\* run_once, the try block: read() raises, returns None (update then raises), or
\* returns a telemetry dict
ReadAndProcess(f, in) ==
    CASE in.rd = "raise" -> Fail(f)
      [] in.rd = "none" -> Fail(f)
      [] OTHER -> Process(f, in.telemetry, in.cb)

\* a tick without telemetry counts as a failure
TelemetryUnavailableIsError(f) == Fail(f)

\* run_once, is_available() returned false
TelemetryUnavailable(f) == [f EXCEPT !.status.telemetry_available = FALSE]

\* run_once while running: the objects and the status after the tick
RunOnceResult(in) ==
    LET f0 == [Frame EXCEPT !.status.process_detected = in.proc]
    IN IF ~in.proc
       THEN GoIdle(f0)
       ELSE LET f1 == Detect(f0)
            IN IF f1.paused THEN f1
               ELSE IF in.avail = "no" THEN TelemetryUnavailable(f1)
               ELSE ReadAndProcess(
                        StartLogging([f1 EXCEPT !.status.telemetry_available = TRUE]),
                        in)

\* what the collaborators return to one run_once: each is asked only where the
\* code calls it
TickInputs ==
    {in \in [proc : BOOLEAN, avail : {"na", "yes", "no"},
             rd : {"na", "raise", "none", "sample"}, telemetry : Telemetry,
             cb : {"na", "return", "raise", "stop", "pause"}] :
        /\ (in.avail = "na") <=> (~in.proc \/ paused)
        /\ (in.rd = "na") <=> (in.avail # "yes")
        /\ (in.rd # "sample") => in.telemetry = EmptyTelemetry
        /\ (in.cb = "na") <=>
              ~(/\ in.rd = "sample"
                /\ CallbackDue(Frame, Update(current_lap, in.telemetry).lap_completed))}

\* the samples read since the last lap boundary, after a tick
ReadSince(in) ==
    IF in.rd # "sample" THEN read_since
    ELSE IF Update(current_lap, in.telemetry).lap_completed THEN 1
    ELSE IF read_since > MaxLapSamples THEN read_since
    ELSE read_since + 1

\* run_once past its first check: the tick's effect on the session, the flags and
\* the status returned
ApplyTick(in) ==
    /\ LET f == RunOnceResult(in)
       IN /\ Len(f.lap_samples) <= MaxLapSamples
          /\ f.clock <= MaxSessions
          /\ state' = f.state
          /\ current_lap' = f.current_lap
          /\ current_session_id' = f.current_session_id
          /\ lap_samples' = f.lap_samples
          /\ running' = f.running
          /\ paused' = f.paused
          /\ clock' = f.clock
          /\ cb_calls' = f.cb_calls
          /\ ret' = f.status
          /\ stop_requested' =
                (stop_requested \/ (pc # "idle" /\ f.cb_calls # <<>> /\ in.cb = "stop"))
    /\ read_since' = ReadSince(in)
    /\ last_op' = "run_once"
    /\ tick_in' = in

\* run_once() while the loop is running
RunOnce(in) ==
    /\ running
    /\ ApplyTick(in)
    /\ UNCHANGED <<has_callback, oppVars, pc, pubVars, monVars>>

\* run_once() while the loop is not running: returns None
RunOnceStopped ==
    /\ ~running
    /\ ret' = NoneRet
    /\ NotATick("run_once")
    /\ UNCHANGED <<smVars, running, paused, has_callback, clock, oppVars,
                   runVars, pubVars, monVars>>

\* ------------------------------------------------- TelemetryLoop.run()
\* run() is invoked in a thread of its own
RunInvoke ==
    /\ pc = "idle"
    /\ pc' = "start"
    /\ UNCHANGED <<oppVars, smVars, loopVars, last_op, ret, stop_requested,
                   read_since, pubVars, monVars>>

\* run(): self.start()
RunStart ==
    /\ pc = "start"
    /\ running' = TRUE
    /\ paused' = FALSE
    /\ ret' = NoneRet
    /\ NotATick("start")
    /\ pc' = "while"
    /\ UNCHANGED <<smVars, has_callback, clock, oppVars, stop_requested,
                   read_since, pubVars, monVars>>

\* run(): while self._running
RunWhile ==
    /\ pc = "while"
    /\ pc' = IF running THEN "enter" ELSE "done"
    /\ UNCHANGED <<oppVars, smVars, loopVars, last_op, ret, stop_requested,
                   read_since, pubVars, monVars>>

\* run(): self.run_once(), its first check: if not self._running: return None
RunEnter ==
    /\ pc = "enter"
    /\ IF running
       THEN /\ pc' = "body"
            /\ UNCHANGED <<last_op, tick_in, ret, cb_calls>>
       ELSE /\ pc' = "sleep"
            /\ ret' = NoneRet
            /\ NotATick("run_once")
    /\ UNCHANGED <<oppVars, smVars, running, paused, has_callback, clock,
                   stop_requested, read_since, pubVars, monVars>>

\* run(): self.run_once() past its first check
RunBody(in) ==
    /\ pc = "body"
    /\ ApplyTick(in)
    /\ pc' = "sleep"
    /\ UNCHANGED <<has_callback, oppVars, pubVars, monVars>>

\* run(): time.sleep(self.poll_interval)
RunSleep ==
    /\ pc = "sleep"
    /\ pc' = "while"
    /\ UNCHANGED <<oppVars, smVars, loopVars, last_op, ret, stop_requested,
                   read_since, pubVars, monVars>>

\* run(): KeyboardInterrupt during the sleep; self.stop()
RunInterrupt ==
    /\ pc = "sleep"
    /\ running' = FALSE
    /\ ret' = NoneRet
    /\ NotATick("stop")
    /\ stop_requested' = TRUE
    /\ pc' = "done"
    /\ UNCHANGED <<smVars, paused, has_callback, clock, oppVars, read_since,
                   pubVars, monVars>>

\* ----------------------------------------------------- DashboardPublisher
\* session_id = 'auto': the id is requested from the server
AutoId == "auto"

\* the session ids a configuration may carry
ConfiguredIds == {AutoId, "custom-123"}

\* the session ids the server assigns
AssignedIds == {"server-1", "server-2"}

\* the setup dictionaries fetched from the REST API
Setups == {"setup-a", "setup-b"}

\* sio.emit('request_session_id', {})
RequestMsg == [event |-> "request_session_id"]

\* sio.emit('setup_data', {...})
SetupMsg(sid, setup) == [event |-> "setup_data", session_id |-> sid, setup |-> setup]

\* _extract_dashboard_fields: telemetry.get('lap', 0)
ExtractDashboardFields(telemetry) == [lap |-> GetLap(telemetry)]

\* sio.emit('telemetry_update', {...})
TelemetryMsg(sid, telemetry) ==
    [event |-> "telemetry_update", session_id |-> sid,
     telemetry |-> ExtractDashboardFields(telemetry)]

\* a session id is requested on every connect
ShouldRequestIdAlways(sid) == TRUE

\* _on_connect: if self.session_id == 'auto'
ShouldRequestId(sid) == sid = AutoId

\* a publisher that emits as soon as it is connected
CanPublishWhenConnected(conn, sid) == conn

\* publish_setup / publish_telemetry get past their two early returns; is_ready()
CanPublish(conn, sid) == conn /\ sid # AutoId

\* what publish_setup(setup_data) emits
PublishSetupEmits(conn, sid, setup) ==
    IF CanPublish(conn, sid) THEN <<SetupMsg(sid, setup)>> ELSE <<>>

\* what publish_telemetry(telemetry_data) emits
PublishTelemetryEmits(conn, sid, telemetry) ==
    IF CanPublish(conn, sid) THEN <<TelemetryMsg(sid, telemetry)>> ELSE <<>>

\* _on_connect()
OnConnect ==
    /\ connected' = TRUE
    /\ pub_call' = [op |-> "on_connect",
                    emitted |-> IF ShouldRequestId(session_id) THEN <<RequestMsg>>
                                ELSE <<>>]
    /\ UNCHANGED <<session_id, monVars>>
    /\ UNCHANGED <<oppVars, smVars, loopVars, last_op, ret, runVars>>

\* _on_disconnect()
OnDisconnect ==
    /\ connected' = FALSE
    /\ pub_call' = [op |-> "on_disconnect", emitted |-> <<>>]
    /\ UNCHANGED <<session_id, monVars>>
    /\ UNCHANGED <<oppVars, smVars, loopVars, last_op, ret, runVars>>

\* _on_session_id_assigned(data)
OnSessionIdAssigned(id) ==
    /\ session_id' = id
    /\ pub_call' = [op |-> "on_session_id_assigned", emitted |-> <<>>]
    /\ UNCHANGED <<connected, monVars>>
    /\ UNCHANGED <<oppVars, smVars, loopVars, last_op, ret, runVars>>

\* publish_setup(setup_data)
PublishSetup(setup) ==
    /\ pub_call' = [op |-> "publish_setup",
                    emitted |-> PublishSetupEmits(connected, session_id, setup)]
    /\ UNCHANGED <<connected, session_id, monVars>>
    /\ UNCHANGED <<oppVars, smVars, loopVars, last_op, ret, runVars>>

\* publish_telemetry(telemetry_data)
PublishTelemetry(telemetry) ==
    /\ pub_call' = [op |-> "publish_telemetry",
                    emitted |-> PublishTelemetryEmits(connected, session_id, telemetry)]
    /\ UNCHANGED <<connected, session_id, monVars>>
    /\ UNCHANGED <<oppVars, smVars, loopVars, last_op, ret, runVars>>

\* DashboardPublisher(server_url, session_id)
PubInitWith(id) ==
    /\ connected = FALSE
    /\ session_id = id
    /\ pub_call = [op |-> "init", emitted |-> <<>>]

\* ---------------------------------------------------------------- Monitor
NoMonCall ==
    [op |-> "init", proc |-> FALSE, fetched |-> FALSE, emitted |-> <<>>,
     disconnect |-> FALSE]

\* the telemetry dicts the monitor reads
MonTelemetry == {EmptyTelemetry, [has_lap |-> TRUE, lap |-> 1]}

\* what the collaborators return to one iteration of the main loop: each is asked
\* only where the code calls it
MonInputs ==
    {in \in [proc : BOOLEAN, rest : {"na", "yes", "no", "raise"},
             setup : {"na", "none", "raise"} \cup Setups,
             tel : {"na", "skip", "raise", "sample"}, telemetry : MonTelemetry] :
        /\ (in.rest = "na") <=> ~(in.proc /\ ~setup_sent)
        /\ (in.setup = "na") <=> (in.rest # "yes")
        /\ (in.tel = "na") <=> (~in.proc \/ in.rest = "raise" \/ in.setup = "raise")
        /\ (in.tel # "sample") => in.telemetry = EmptyTelemetry}

\* a monitor that keeps asking while the REST API is not available
SendSetupRetryWhenUnavailable(in) ==
    CASE in.rest = "no" -> [setup_sent |-> FALSE, emitted |-> <<>>, raised |-> FALSE]
      [] in.rest = "raise" -> [setup_sent |-> FALSE, emitted |-> <<>>, raised |-> TRUE]
      [] in.setup = "raise" -> [setup_sent |-> FALSE, emitted |-> <<>>, raised |-> TRUE]
      [] in.setup = "none" -> [setup_sent |-> TRUE, emitted |-> <<>>, raised |-> FALSE]
      [] OTHER -> [setup_sent |-> TRUE,
                   emitted |-> PublishSetupEmits(connected, session_id, in.setup),
                   raised |-> FALSE]

\* _send_setup(), called with setup_sent false: the flag afterwards, what the
\* publisher emitted, and whether a collaborator raised
SendSetup(in) ==
    CASE in.rest = "no" -> [setup_sent |-> TRUE, emitted |-> <<>>, raised |-> FALSE]
      [] in.rest = "raise" -> [setup_sent |-> FALSE, emitted |-> <<>>, raised |-> TRUE]
      [] in.setup = "raise" -> [setup_sent |-> FALSE, emitted |-> <<>>, raised |-> TRUE]
      [] in.setup = "none" -> [setup_sent |-> TRUE, emitted |-> <<>>, raised |-> FALSE]
      [] OTHER -> [setup_sent |-> TRUE,
                   emitted |-> PublishSetupEmits(connected, session_id, in.setup),
                   raised |-> FALSE]

\* _send_telemetry(): what the publisher emitted
SendTelemetry(in) ==
    IF in.tel = "sample"
    THEN PublishTelemetryEmits(connected, session_id, in.telemetry)
    ELSE <<>>

\* the _send_setup calls of the current period, counted up to the bound
CountFetch(n) == IF n >= MaxPeriodFetches THEN n ELSE n + 1

\* Monitor.start(), main loop: an iteration that does not see the process
IterateNoProcess ==
    /\ setup_sent' = FALSE
    /\ period_fetches' = 0
    /\ mon_call' = [op |-> "iterate", proc |-> FALSE, fetched |-> FALSE,
                    emitted |-> <<>>, disconnect |-> FALSE]
    /\ mon_pc' = "loop"
    /\ UNCHANGED <<mon_running, pub_call>>

\* Monitor.start(), main loop: an iteration that sees the process
IterateProcess(in) ==
    LET fetch == ~setup_sent
        r == IF fetch THEN SendSetup(in)
             ELSE [setup_sent |-> setup_sent, emitted |-> <<>>, raised |-> FALSE]
        sent == SendTelemetry(in)
    IN /\ setup_sent' = r.setup_sent
       /\ period_fetches' = IF fetch THEN CountFetch(period_fetches)
                            ELSE period_fetches
       /\ mon_running' = ~(r.raised \/ in.tel = "raise")
       /\ mon_pc' = IF r.raised \/ in.tel = "raise" THEN "returned" ELSE "loop"
       /\ mon_call' = [op |-> "iterate", proc |-> TRUE, fetched |-> fetch,
                       emitted |-> r.emitted \o sent,
                       disconnect |-> r.raised \/ in.tel = "raise"]
       /\ pub_call' = IF in.tel = "sample"
                      THEN [op |-> "publish_telemetry", emitted |-> sent]
                      ELSE IF fetch /\ in.setup \in Setups
                      THEN [op |-> "publish_setup", emitted |-> r.emitted]
                      ELSE pub_call

\* Monitor.start(), one iteration of the main loop
MonIterate(in) ==
    /\ mon_pc = "loop"
    /\ mon_running
    /\ IF in.proc THEN IterateProcess(in) ELSE IterateNoProcess
    /\ UNCHANGED <<connected, session_id>>
    /\ UNCHANGED <<oppVars, smVars, loopVars, last_op, ret, runVars>>

\* a start() that goes on to wait for the session id after a failed connect
AfterConnectIgnoreFailure(ok) == "waiting"

\* Monitor.start(): if not self.publisher.connect(): return
AfterConnect(ok) == IF ok THEN "waiting" ELSE "returned"

\* Monitor.start() up to the wait for the session id; connect() returned ok
MonStart(ok) ==
    /\ mon_pc \in {"init", "returned"}
    /\ mon_pc' = AfterConnect(ok)
    /\ mon_call' = [op |-> "start", proc |-> FALSE, fetched |-> FALSE,
                    emitted |-> <<>>, disconnect |-> FALSE]
    /\ UNCHANGED <<mon_running, setup_sent, period_fetches, pubVars>>
    /\ UNCHANGED <<oppVars, smVars, loopVars, last_op, ret, runVars>>

\* Monitor.start(): is_ready() seen true, the main loop is entered
MonWaitReady ==
    /\ mon_pc = "waiting"
    /\ CanPublish(connected, session_id)
    /\ mon_running' = TRUE
    /\ mon_pc' = "loop"
    /\ period_fetches' = 0
    /\ mon_call' = [op |-> "ready", proc |-> FALSE, fetched |-> FALSE,
                    emitted |-> <<>>, disconnect |-> FALSE]
    /\ UNCHANGED <<setup_sent, pubVars>>
    /\ UNCHANGED <<oppVars, smVars, loopVars, last_op, ret, runVars>>

\* Monitor.start(): is_ready() still false when the timeout has passed
MonWaitTimeout ==
    /\ mon_pc = "waiting"
    /\ ~CanPublish(connected, session_id)
    /\ mon_pc' = "returned"
    /\ mon_call' = [op |-> "timeout", proc |-> FALSE, fetched |-> FALSE,
                    emitted |-> <<>>, disconnect |-> FALSE]
    /\ UNCHANGED <<mon_running, setup_sent, period_fetches, pubVars>>
    /\ UNCHANGED <<oppVars, smVars, loopVars, last_op, ret, runVars>>

\* Monitor.start(): while self.running ends; finally: self.stop()
MonExit ==
    /\ mon_pc = "loop"
    /\ ~mon_running
    /\ mon_pc' = "returned"
    /\ mon_call' = [op |-> "exit", proc |-> FALSE, fetched |-> FALSE,
                    emitted |-> <<>>, disconnect |-> TRUE]
    /\ UNCHANGED <<mon_running, setup_sent, period_fetches, pubVars>>
    /\ UNCHANGED <<oppVars, smVars, loopVars, last_op, ret, runVars>>

\* Monitor.stop(), from the signal handler
MonStop ==
    /\ mon_running' = FALSE
    /\ mon_call' = [op |-> "stop", proc |-> FALSE, fetched |-> FALSE,
                    emitted |-> <<>>, disconnect |-> TRUE]
    /\ UNCHANGED <<setup_sent, period_fetches, mon_pc, pubVars>>
    /\ UNCHANGED <<oppVars, smVars, loopVars, last_op, ret, runVars>>

\* Monitor(config_path)
MonInitWith(id) ==
    /\ PubInitWith(id)
    /\ mon_running = FALSE
    /\ setup_sent = FALSE
    /\ period_fetches = 0
    /\ mon_pc = "init"
    /\ mon_call = NoMonCall

\* ------------------------------------------------------- specifications
\* OpponentTracker(track_remote_only, track_ai)
OppInitWith(remote_only, ai) ==
    /\ opponents = <<>>
    /\ track_remote_only = remote_only
    /\ track_ai = ai
    /\ completed = <<>>
    /\ opp_call = [driver_name |-> "", control |-> ControlNone, lap |-> 0,
                    path |-> "init"]
    /\ last_emitted = [d \in Drivers |-> NoFastest]
    /\ last_emitted_lap = [d \in Drivers |-> 0]
    /\ tracked_since_reset = {}

\* SessionManager() and TelemetryLoop(config)
LoopInitWith(callback) ==
    /\ state = "idle"
    /\ current_lap = 0
    /\ current_session_id = NoSession
    /\ lap_samples = <<>>
    /\ running = FALSE
    /\ paused = FALSE
    /\ has_callback = callback
    /\ last_op = "init"
    /\ tick_in = NoTick
    /\ ret = NoneRet
    /\ cb_calls = <<>>
    /\ clock = 0
    /\ pc = "idle"
    /\ stop_requested = FALSE
    /\ read_since = 0

\* OpponentTracker(): track_remote_only=True, track_ai=False
OppInit == OppInitWith(TRUE, FALSE) /\ LoopInitWith(FALSE) /\ MonInitWith(AutoId)

OppNext ==
    \/ \E raw \in RawSamples : UpdateOpponent(raw)
    \/ Reset

\* the tracker with its default configuration
SpecOpp == OppInit /\ [][OppNext]_vars

OppCfgInit ==
    /\ \E remote_only \in BOOLEAN, ai \in BOOLEAN : OppInitWith(remote_only, ai)
    /\ LoopInitWith(FALSE)
    /\ MonInitWith(AutoId)

OppCfgNext ==
    \/ \E raw \in CfgSamples : UpdateOpponent(raw)
    \/ Reset

\* the tracker under every configuration
SpecOppCfg == OppCfgInit /\ [][OppCfgNext]_vars

OppStartNext ==
    \/ \E raw \in BoundarySamples : UpdateOpponent(raw)
    \/ Reset

\* the tracker fed with samples around the lap-start threshold
SpecOppStart == OppInit /\ [][OppStartNext]_vars

SessionInit == OppInitWith(TRUE, FALSE) /\ LoopInitWith(FALSE) /\ MonInitWith(AutoId)

SessionNext ==
    \/ \E telemetry \in Telemetry : SMUpdate(telemetry)
    \/ \E telemetry \in Telemetry : SMAddSample(telemetry)
    \/ SMClearLapBuffer

\* the local lap tracker used on its own
SpecSession == SessionInit /\ [][SessionNext]_vars

LoopInit ==
    /\ OppInitWith(TRUE, FALSE)
    /\ \E callback \in BOOLEAN : LoopInitWith(callback)
    /\ MonInitWith(AutoId)

LoopNext ==
    \/ Start
    \/ Stop
    \/ Pause
    \/ Resume
    \/ \E in \in TickInputs : RunOnce(in)
    \/ RunOnceStopped

\* the polling loop, its control calls interleaved with ticks
SpecLoop == LoopInit /\ [][LoopNext]_vars

RunNext ==
    \/ RunInvoke
    \/ RunStart
    \/ RunWhile
    \/ RunEnter
    \/ \E in \in TickInputs : RunBody(in)
    \/ RunSleep
    \/ RunInterrupt
    \/ Stop

\* run() in its own thread, stop() called from any other thread at any moment
SpecRun == LoopInit /\ [][RunNext]_vars

PubInit ==
    /\ OppInitWith(TRUE, FALSE)
    /\ LoopInitWith(FALSE)
    /\ \E id \in ConfiguredIds : MonInitWith(id)

MonNext ==
    \/ OnConnect
    \/ OnDisconnect
    \/ \E id \in AssignedIds : OnSessionIdAssigned(id)
    \/ \E setup \in Setups : PublishSetup(setup)
    \/ \E telemetry \in MonTelemetry : PublishTelemetry(telemetry)
    \/ \E ok \in BOOLEAN : MonStart(ok)
    \/ MonWaitReady
    \/ MonWaitTimeout
    \/ \E in \in MonInputs : MonIterate(in)
    \/ MonExit
    \/ MonStop

\* the publisher and the monitor's main loop: socket events, publish calls and the
\* stop signal interleaved with the iterations
SpecMon == PubInit /\ [][MonNext]_vars

\* ---------------------------------------------- claims on the opponent tracker
\* the sample continues an entry that exists, and its lap is the entry's lap + 1
IsPlusOne(raw) ==
    /\ ShouldTrack(raw.control)
    /\ raw.driver_name \in DOMAIN opponents
    /\ raw.lap = opponents[raw.driver_name].current_lap + 1

\* the sample continues an entry that exists, with any other lap
IsResync(raw) ==
    /\ ShouldTrack(raw.control)
    /\ raw.driver_name \in DOMAIN opponents
    /\ raw.lap # opponents[raw.driver_name].current_lap + 1

\* the step is the call update_opponent(raw)
IsUpdate(raw) ==
    /\ opp_call'.driver_name = raw.driver_name
    /\ opp_call'.control = raw.control
    /\ opp_call'.lap = raw.lap
    /\ UpdateOpponent(raw)

IsPrefix(s, t) == Len(s) <= Len(t) /\ SubSeq(t, 1, Len(s)) = s

\* C1: at a +1 lap transition of an entry whose seen_lap_start is false,
\* update_opponent returns an empty list, the buffer keeps none of the finished
\* lap's samples and current_lap becomes the incoming lap (so a lap is returned
\* only if seen_lap_start was true for the finished lap).
C1_PartialLapDiscarded ==
    [][\A raw \in AllSamples :
          (IsUpdate(raw) /\ IsPlusOne(raw)
             /\ ~opponents[raw.driver_name].seen_lap_start)
          => /\ completed' = <<>>
             /\ opponents'[raw.driver_name].current_lap = raw.lap
             /\ opponents'[raw.driver_name].samples \in {<<>>, <<Normalize(raw)>>}]_vars

\* C2: a sample whose lap is not the entry's current_lap + 1 (same lap, backward,
\* jump of +2 or more) returns an empty list, sets current_lap to the incoming lap
\* and keeps every buffered sample.
C2_ResyncNoEmission ==
    [][\A raw \in AllSamples :
          (IsUpdate(raw) /\ IsResync(raw))
          => /\ completed' = <<>>
             /\ opponents'[raw.driver_name].current_lap = raw.lap
             /\ IsPrefix(opponents[raw.driver_name].samples,
                         opponents'[raw.driver_name].samples)
             /\ Len(opponents'[raw.driver_name].samples) > 0]_vars

\* a lap jump from 1 to 3 was absorbed with the lap-1 samples still buffered
C2_Witness ==
    /\ opp_call.path = "resync"
    /\ opp_call.driver_name \in DOMAIN opponents
    /\ completed = <<>>
    /\ opponents[opp_call.driver_name].current_lap = 3
    /\ Len(opponents[opp_call.driver_name].samples) >= 2
    /\ opponents[opp_call.driver_name].samples[1].Lap = 1

\* C3: between resets an entry's fastest_lap_time never increases and, once set,
\* never becomes unset; a completion that is not strictly faster leaves it unchanged.
C3_FastestMonotone ==
    [][/\ \A d \in DOMAIN opponents \cap DOMAIN opponents' :
             opponents[d].fastest_lap_time # NoFastest
             => /\ opponents'[d].fastest_lap_time # NoFastest
                /\ opponents'[d].fastest_lap_time <= opponents[d].fastest_lap_time
       /\ \A raw \in AllSamples :
             (IsUpdate(raw) /\ IsPlusOne(raw)
                /\ opponents[raw.driver_name].fastest_lap_time # NoFastest
                /\ raw.last_lap_time >= opponents[raw.driver_name].fastest_lap_time)
             => opponents'[raw.driver_name].fastest_lap_time
                  = opponents[raw.driver_name].fastest_lap_time]_vars

\* a slower lap (120) completed after a fastest of 92 and left it at 92
C3_Witness ==
    /\ opp_call.path = "slower"
    /\ opp_call.driver_name \in DOMAIN opponents
    /\ opponents[opp_call.driver_name].fastest_lap_time = 92
    /\ completed = <<>>

\* C4: at a +1 transition with seen_lap_start true the lap is emitted iff its lap
\* time is strictly less than fastest_lap_time or there is none; an emitted lap has
\* is_fastest = true, becomes the fastest_lap_time, and is strictly faster than the
\* driver's previously emitted lap.
C4_EmittedIffStrictlyFaster ==
    [][\A raw \in AllSamples :
          IsUpdate(raw)
          => /\ (IsPlusOne(raw) /\ opponents[raw.driver_name].seen_lap_start)
                => ((completed' # <<>>)
                    <=> (\/ opponents[raw.driver_name].fastest_lap_time = NoFastest
                         \/ raw.last_lap_time
                              < opponents[raw.driver_name].fastest_lap_time))
             /\ \A i \in 1..Len(completed') :
                   /\ completed'[i].is_fastest
                   /\ completed'[i].driver_name = raw.driver_name
                   /\ completed'[i].lap_time = raw.last_lap_time
                   /\ opponents'[raw.driver_name].fastest_lap_time = raw.last_lap_time
                   /\ last_emitted[raw.driver_name] # NoFastest
                      => raw.last_lap_time < last_emitted[raw.driver_name]]_vars

\* a second, faster lap (92 after 120) was emitted
C4_Witness ==
    /\ opp_call.path = "fastest"
    /\ Len(completed) = 1
    /\ completed[1].lap_time = 92
    /\ completed[1].lap_number = 2
    /\ completed[1].is_fastest
    /\ opponents[opp_call.driver_name].fastest_lap_time = 92
    /\ opponents[opp_call.driver_name].current_lap = 3

\* C5: under every configuration a sample tagged local or replay creates no entry,
\* modifies none and returns an empty list.
C5_LocalReplayNeverTracked ==
    [][\A raw \in AllSamples :
          (IsUpdate(raw) /\ raw.control \in {ControlLocal, ControlReplay})
          => (opponents' = opponents /\ completed' = <<>>)]_vars

\* a replay sample of a driver was rejected with AI tracking on and remote-only off
C5_Witness ==
    /\ opp_call.control = ControlReplay
    /\ opp_call.path = "rejected"
    /\ track_ai
    /\ ~track_remote_only
    /\ opp_call.driver_name \notin DOMAIN opponents
    /\ opponents # <<>>

\* C6: a remote sample is tracked under every configuration, an AI sample iff
\* track_ai; an AI sample that is not tracked creates no entry and returns nothing.
C6_ShouldTrackPolicy ==
    [][\A raw \in AllSamples :
          IsUpdate(raw)
          => /\ raw.control = ControlRemote => raw.driver_name \in DOMAIN opponents'
             /\ raw.control = ControlAI
                => IF track_ai
                   THEN raw.driver_name \in DOMAIN opponents'
                   ELSE opponents' = opponents /\ completed' = <<>>]_vars

\* an AI sample created an entry because track_ai is enabled
C6_Witness ==
    /\ opp_call.control = ControlAI
    /\ opp_call.path = "created"
    /\ track_ai
    /\ opp_call.driver_name \in DOMAIN opponents

\* ------------------------------ claims on the local lap tracker and the loop
\* C7: SessionManager.update signals lap_completed iff the sample's lap differs
\* from the stored lap and the stored lap was greater than zero; afterwards the
\* stored lap is the sample's lap, 0 for a sample without a lap field.
C7_UpdateSignalsAnyChange ==
    [][\A telemetry \in Telemetry :
          SMUpdate(telemetry)
          => LET new_lap == IF telemetry.has_lap THEN telemetry.lap ELSE 0
             IN /\ ret'.lap_completed <=> (new_lap # current_lap /\ current_lap > 0)
                /\ current_lap' = new_lap]_vars

\* an update that moved the lap back to 0 signalled a completion
C7_Witness ==
    /\ last_op = "update"
    /\ ret.kind = "events"
    /\ ret.lap_completed
    /\ current_lap = 0

\* C8: a run_once tick invokes on_lap_complete at most once, and only when the
\* sample read in that tick crossed a lap boundary and the buffer of the finished
\* lap is non-empty; with an empty buffer it is not invoked.
C8_CallbackOnlyOnNonEmptyLap ==
    [][last_op' = "run_once"
       => /\ Len(cb_calls') <= 1
          /\ cb_calls' # <<>>
             => /\ tick_in'.rd = "sample"
                /\ GetLap(tick_in'.telemetry) # current_lap
                /\ current_lap > 0
                /\ lap_samples # <<>>
                /\ cb_calls'[1].lap_data = lap_samples
          /\ lap_samples = <<>> => cb_calls' = <<>>]_vars

\* a tick crossed a lap boundary and handed two buffered samples to the callback
C8_Witness ==
    /\ last_op = "run_once"
    /\ ret.kind = "status"
    /\ ret.lap_completed
    /\ Len(cb_calls) = 1
    /\ Len(cb_calls[1].lap_data) = 2

\* a tick crossed a lap boundary with an empty buffer: no callback
C8_EmptyBoundary ==
    /\ last_op = "run_once"
    /\ ret.kind = "status"
    /\ ret.lap_completed
    /\ ~ret.error
    /\ has_callback
    /\ cb_calls = <<>>

\* C9: after a tick whose process-presence check returned false the session state
\* is idle and the lap buffer is empty, whatever the state was before.
C9_NoProcessIdleAndEmpty ==
    (last_op = "run_once" /\ ret.kind = "status" /\ ~tick_in.proc)
    => (state = "idle" /\ lap_samples = <<>>)

\* a tick that started in the error state with samples buffered lost the process
C9_Witness ==
    /\ last_op = "run_once"
    /\ ret.kind = "status"
    /\ ~tick_in.proc
    /\ ret.state = "error"
    /\ ret.samples_buffered > 0
    /\ state = "idle"
    /\ lap_samples = <<>>

\* C10: whenever the session state is logging, a session id has been set.
C10_LoggingHasSessionId ==
    state = "logging" => current_session_id # NoSession

\* C11: in a tick that runs while the session state is paused, telemetry is not
\* read, current_lap does not change, no sample is appended to the lap buffer and
\* on_lap_complete is not invoked.
C11_PausedTickNoSampling ==
    [][(last_op' = "run_once" /\ ret'.kind = "status" /\ state = "paused")
       => /\ tick_in'.rd = "na"
          /\ current_lap' = current_lap
          /\ IsPrefix(lap_samples', lap_samples)
          /\ cb_calls' = <<>>]_vars

\* C12: a tick fails exactly when read() raises, returns no dict, or the callback
\* raises; run_once then still returns a status, with state error and an error
\* field, the session state is error, and the loop keeps running.
C12_ExceptionCaughtAtTick ==
    [][(last_op' = "run_once" /\ ret'.kind = "status")
       => /\ ret'.error <=> (\/ tick_in'.rd \in {"raise", "none"}
                              \/ tick_in'.cb = "raise")
          /\ ret'.error => /\ state' = "error"
                           /\ ret'.state = "error"
                           /\ running' = running
                           /\ running']_vars

\* the callback raised on a lap boundary: the tick returned an error status and
\* the loop is still running
C12_Witness ==
    /\ last_op = "run_once"
    /\ ret.kind = "status"
    /\ ret.error
    /\ ret.lap_completed
    /\ tick_in.cb = "raise"
    /\ Len(cb_calls) = 1
    /\ state = "error"
    /\ running

\* C13: a tick with the process present and is_available() false reports
\* telemetry_available = false, reads nothing, leaves current_lap, the lap buffer
\* and the session id unchanged and never moves the state to error.
C13_UnavailableIsNoError ==
    [][(last_op' = "run_once" /\ ret'.kind = "status" /\ tick_in'.avail = "no")
       => /\ ret'.process_detected
          /\ ~ret'.telemetry_available
          /\ ~ret'.error
          /\ tick_in'.rd = "na"
          /\ cb_calls' = <<>>
          /\ current_lap' = current_lap
          /\ lap_samples' = lap_samples
          /\ current_session_id' = current_session_id
          /\ state' = "error" => state = "error"]_vars

\* telemetry became unavailable while logging with samples buffered
C13_Witness ==
    /\ last_op = "run_once"
    /\ ret.kind = "status"
    /\ tick_in.avail = "no"
    /\ ~ret.telemetry_available
    /\ state = "logging"
    /\ current_session_id # NoSession
    /\ Len(lap_samples) > 0

\* C14: at the end of every tick every buffered sample's lap equals current_lap.
C14_BufferHoldsOneLap ==
    (last_op = "run_once" /\ ret.kind = "status")
    => \A i \in 1..Len(lap_samples) : GetLap(lap_samples[i]) = current_lap

\* C15: a tick of run() during which stop() was called, by the callback or by
\* another thread, still dispatches the callback, clears the buffer on a lap
\* completion and appends the sample it read; run() goes on to its sleep and
\* finds the stop at its next while check.
C15_StoppedTickCompletes ==
    [][(pc = "body" /\ pc' = "sleep" /\ ~running' /\ tick_in'.rd = "sample"
          /\ tick_in'.cb # "raise")
       => LET boundary == GetLap(tick_in'.telemetry) # current_lap /\ current_lap > 0
          IN /\ ret'.kind = "status"
             /\ ~ret'.error
             /\ ret'.lap_completed = boundary
             /\ (boundary /\ has_callback /\ lap_samples # <<>>)
                => (Len(cb_calls') = 1 /\ cb_calls'[1].lap_data = lap_samples)
             /\ lap_samples' = IF boundary THEN <<tick_in'.telemetry>>
                               ELSE Append(lap_samples, tick_in'.telemetry)
             /\ ret'.samples_buffered = Len(lap_samples')]_vars

\* another thread stopped the loop during a tick that crossed a lap boundary: the
\* callback was called, the buffer holds the new sample only
C15_Witness ==
    /\ pc = "sleep"
    /\ last_op = "run_once"
    /\ ret.kind = "status"
    /\ ~running
    /\ stop_requested
    /\ ret.lap_completed
    /\ tick_in.cb = "return"
    /\ Len(cb_calls) = 1
    /\ lap_samples = <<tick_in.telemetry>>

\* C16: once stop() was called after run() was invoked, no run_once of run() gets
\* past its first check any more (the stop request is not lost).
C16_StopNeverLost ==
    [][stop_requested => ~(pc = "enter" /\ pc' = "body")]_vars

\* C17: the lap_data handed to on_lap_complete holds as many samples as were read
\* since the previous lap boundary (none dropped, none from an earlier lap).
C17_LapDataIsWhatWasRead ==
    [][(last_op' = "run_once" /\ ret'.kind = "status" /\ cb_calls' # <<>>)
       => Len(cb_calls'[1].lap_data) = read_since]_vars

\* ------------------------------ claims on the publisher and the monitor
\* C18: publish_setup and publish_telemetry emit a message only when connected is
\* true and session_id is not 'auto', and then one carrying that session id;
\* otherwise they emit nothing; they change neither connected nor session_id.
C18_PublishOnlyWhenReady ==
    [][/\ ((\E setup \in Setups : PublishSetup(setup))
           \/ (\E telemetry \in MonTelemetry : PublishTelemetry(telemetry)))
          => /\ pub_call'.emitted # <<>> <=> (connected /\ session_id # AutoId)
             /\ connected' = connected
             /\ session_id' = session_id
       /\ (pub_call'.op \in {"publish_setup", "publish_telemetry"})
          => \A i \in 1..Len(pub_call'.emitted) :
                /\ pub_call'.emitted[i].event \in {"setup_data", "telemetry_update"}
                /\ pub_call'.emitted[i].session_id = session_id'
                /\ pub_call'.emitted[i].session_id # AutoId
                /\ connected'
       /\ \A i \in 1..Len(mon_call'.emitted) :
             mon_call'.emitted[i].session_id # AutoId]_vars

\* a telemetry update went out under a session id the server assigned
C18_Witness ==
    /\ pub_call.op = "publish_telemetry"
    /\ Len(pub_call.emitted) = 1
    /\ pub_call.emitted[1].event = "telemetry_update"
    /\ pub_call.emitted[1].session_id \in AssignedIds
    /\ connected

\* C19: _on_connect emits request_session_id iff session_id is 'auto' at that
\* moment; a session_id other than 'auto' never becomes 'auto' again, so a
\* reconnect after the assignment issues no request.
C19_RequestOnlyWhileAuto ==
    [][/\ OnConnect => /\ connected'
                       /\ pub_call'.emitted =
                            IF session_id = AutoId THEN <<RequestMsg>> ELSE <<>>
       /\ session_id # AutoId => session_id' # AutoId]_vars

\* a connect event after the server assigned an id: nothing was requested
C19_Witness ==
    /\ pub_call.op = "on_connect"
    /\ pub_call.emitted = <<>>
    /\ session_id \in AssignedIds
    /\ connected

\* C20: in the main loop _send_setup is called at most once per continuous period
\* in which the process is seen running: the iteration that first sees the
\* process calls it and sets setup_sent whether or not setup was available (unless
\* a collaborator raised, which ends the loop), and only an iteration that sees
\* no process clears setup_sent.
C20_SetupOncePerPeriod ==
    [][/\ period_fetches' <= 1
       /\ setup_sent' # setup_sent => mon_call'.op = "iterate"
       /\ \A in \in MonInputs :
             MonIterate(in)
             => /\ mon_call'.fetched <=> (in.proc /\ ~setup_sent)
                /\ (setup_sent' /\ ~setup_sent) => mon_call'.fetched
                /\ (~setup_sent' /\ setup_sent) => ~in.proc
                /\ (mon_call'.fetched /\ in.rest # "raise" /\ in.setup # "raise")
                   => setup_sent'
                /\ (mon_call'.fetched /\ (in.rest = "raise" \/ in.setup = "raise"))
                   => ~mon_running']_vars

\* setup was handled by an earlier iteration of this period; this iteration saw
\* the process again and did not call _send_setup
C20_Witness ==
    /\ mon_call.op = "iterate"
    /\ mon_call.proc
    /\ ~mon_call.fetched
    /\ mon_call.emitted = <<>>
    /\ setup_sent
    /\ period_fetches = 1
    /\ mon_running

\* C21: Monitor.start enters its main loop (running = true) only after connect()
\* returned true and is_ready() was seen true; after a failed connect or a timeout
\* start() has returned with running false, and outside the main loop the monitor
\* sends no setup and no telemetry.
C21_LoopOnlyWhenReady ==
    [][/\ \A ok \in BOOLEAN :
             MonStart(ok) => /\ mon_pc' = (IF ok THEN "waiting" ELSE "returned")
                             /\ ~mon_running'
       /\ (mon_pc' = "waiting" /\ mon_pc # "waiting") => mon_call'.op = "start"
       /\ (mon_pc' = "loop" /\ mon_pc # "loop")
          => (mon_pc = "waiting" /\ connected /\ session_id # AutoId)
       /\ MonWaitTimeout => (mon_pc' = "returned" /\ ~mon_running')
       /\ mon_running' => mon_pc' = "loop"
       /\ (mon_pc # "loop" \/ ~mon_running)
          => (mon_call'.emitted = <<>> \/ mon_call' = mon_call)]_vars

\* the server was reached but assigned no session id in time: start() returned
C21_Witness ==
    /\ mon_call.op = "timeout"
    /\ mon_pc = "returned"
    /\ ~mon_running
    /\ connected
    /\ session_id = AutoId
    /\ ~setup_sent

\* ---------------------------------- further claims on the opponent tracker
\* C22: update_opponent returns at most one CompletedLap, and only at a +1
\* transition; its lap_number is the entry's current_lap before the call, its
\* lap_time the sample's last_lap_time (not its running lap_time), its samples the
\* entry's buffer before the triggering sample.
C22_CompletedLapContent ==
    [][\A raw \in AllSamples :
          IsUpdate(raw)
          => /\ Len(completed') <= 1
             /\ completed' # <<>>
                => /\ IsPlusOne(raw)
                   /\ completed'[1].driver_name = raw.driver_name
                   /\ completed'[1].lap_number = opponents[raw.driver_name].current_lap
                   /\ completed'[1].lap_number = raw.lap - 1
                   /\ completed'[1].lap_time = raw.last_lap_time
                   /\ completed'[1].lap_time # raw.lap_time
                   /\ completed'[1].samples = opponents[raw.driver_name].samples]_vars

\* lap 1 was returned with its two samples; the buffer holds the lap-2 sample only
C22_Witness ==
    /\ Len(completed) = 1
    /\ completed[1].lap_number = 1
    /\ Len(completed[1].samples) = 2
    /\ completed[1].samples[2].Lap = 1
    /\ Len(opponents[completed[1].driver_name].samples) = 1
    /\ opponents[completed[1].driver_name].samples[1].Lap = 2

\* C23: the entries are exactly the drivers of the tracked samples received since
\* the last reset(), get_opponent_count() is their number, reset() leaves no
\* entry, and the first tracked sample after a reset is a first sight.
C23_EntriesAreTrackedDrivers ==
    [][/\ DOMAIN opponents' = tracked_since_reset'
       /\ Cardinality(DOMAIN opponents') = Cardinality(tracked_since_reset')
       /\ Reset => (opponents' = <<>> /\ Cardinality(DOMAIN opponents') = 0)
       /\ \A raw \in AllSamples :
             (IsUpdate(raw) /\ opp_call.path = "reset" /\ ShouldTrack(raw.control))
             => /\ opp_call'.path = "created"
                /\ completed' = <<>>
                /\ DOMAIN opponents' = {raw.driver_name}
                /\ opponents'[raw.driver_name].fastest_lap_time = NoFastest]_vars

\* both drivers are tracked, the second one just created
C23_Witness ==
    /\ opp_call.path = "created"
    /\ tracked_since_reset = Drivers
    /\ GetOpponentCount = 2
    /\ DOMAIN opponents = Drivers

\* C24: a lap is returned at a +1 transition only if seen_lap_start was already
\* true before the call, that is, set by a sample of the finished lap; a
\* triggering sample within the threshold does not count for the finished lap.
C24_StartSeenOnFinishedLap ==
    [][\A raw \in AllSamples :
          (IsUpdate(raw) /\ IsPlusOne(raw) /\ completed' # <<>>)
          => opponents[raw.driver_name].seen_lap_start]_vars

C26_PartialLeavesEmptyEntry ==
    [][\A raw \in AllSamples :
          (IsUpdate(raw) /\ IsPlusOne(raw)
             /\ ~opponents[raw.driver_name].seen_lap_start)
          => /\ ~opponents'[raw.driver_name].seen_lap_start
             /\ opponents'[raw.driver_name].samples = <<>>]_vars

\* C27: every buffered sample of an entry carries the entry's current_lap, and
\* every sample of a returned CompletedLap carries its lap_number.
C27_BufferHoldsOneLap ==
    /\ \A d \in DOMAIN opponents :
          \A j \in 1..Len(opponents[d].samples) :
             opponents[d].samples[j].Lap = opponents[d].current_lap
    /\ \A i \in 1..Len(completed) :
          \A j \in 1..Len(completed[i].samples) :
             completed[i].samples[j].Lap = completed[i].lap_number

\* C28: a lap returned for a driver never has the lap number of the lap returned
\* for that driver before it.
C28_LapEmittedOnce ==
    [][\A raw \in AllSamples :
          IsUpdate(raw)
          => \A i \in 1..Len(completed') :
                completed'[i].lap_number # last_emitted_lap[raw.driver_name]]_vars

\* C29: the first tracked sample of a driver returns nothing and leaves an entry
\* with current_lap the sample's lap, one buffered sample, no fastest time, and
\* seen_lap_start telling whether the sample is within the lap-start threshold.
C29_FirstSightCreatesEntry ==
    [][\A raw \in AllSamples :
          (IsUpdate(raw) /\ ShouldTrack(raw.control)
             /\ raw.driver_name \notin DOMAIN opponents)
          => LET length == IF raw.track_length = NoTrackLength THEN 5000
                           ELSE raw.track_length
             IN /\ completed' = <<>>
                /\ raw.driver_name \in DOMAIN opponents'
                /\ opponents'[raw.driver_name].current_lap = raw.lap
                /\ opponents'[raw.driver_name].samples = <<Normalize(raw)>>
                /\ opponents'[raw.driver_name].fastest_lap_time = NoFastest
                /\ opponents'[raw.driver_name].seen_lap_start
                     = (raw.lap_distance * 20 < length)]_vars

\* a driver was first seen on lap 3, away from the start line
C29_Witness ==
    /\ opp_call.path = "created"
    /\ opp_call.lap = 3
    /\ completed = <<>>
    /\ opponents[opp_call.driver_name].current_lap = 3
    /\ Len(opponents[opp_call.driver_name].samples) = 1
    /\ opponents[opp_call.driver_name].samples[1].LapDistance = 300
    /\ ~opponents[opp_call.driver_name].seen_lap_start
    /\ opponents[opp_call.driver_name].fastest_lap_time = NoFastest

C31_SeenLapStartSticky ==
    [][\A raw \in AllSamples :
          (IsUpdate(raw) /\ IsResync(raw)
             /\ opponents[raw.driver_name].seen_lap_start)
          => opponents'[raw.driver_name].seen_lap_start]_vars

\* the lap index went backward on a sample at 300 m; the flag set at 100 m stays
C31_Witness ==
    /\ opp_call.path = "resync"
    /\ Len(opponents[opp_call.driver_name].samples) = 2
    /\ opponents[opp_call.driver_name].samples[1].LapDistance = 100
    /\ opponents[opp_call.driver_name].samples[2].LapDistance = 300
    /\ opponents[opp_call.driver_name].samples[2].Lap
          < opponents[opp_call.driver_name].samples[1].Lap
    /\ opponents[opp_call.driver_name].seen_lap_start

\* ------------------------------------------- further claims on TelemetryLoop
\* C32: pause() called in Idle, Detected or Error leaves the session state as it
\* is (Paused is entered only from Logging), and resume() changes the state only
\* from Paused, to Logging.
C32_PausedOnlyFromLogging ==
    [][/\ (Pause /\ state \in {"idle", "detected", "error"}) => state' = state
       /\ (Resume /\ state # "paused") => state' = state
       /\ (Resume /\ state = "paused") => state' = "logging"]_vars

\* C33: a tick of a paused loop still makes both checks: its status reports the
\* process as is_running() returned it and, with the process present,
\* is_available() is asked.
C33_PausedTickStillChecks ==
    [][(last_op' = "run_once" /\ ret'.kind = "status" /\ paused)
       => /\ ret'.process_detected = tick_in'.proc
          /\ tick_in'.proc => tick_in'.avail # "na"]_vars

\* C34: the Error state recovers on the next successful tick: a tick that starts
\* in Error with the loop not paused, the process present, telemetry available,
\* a sample read and no exception ends with the session state Logging and
\* returns a status whose state is Logging.
C34_ErrorRecovers ==
    [][(/\ last_op' = "run_once"
        /\ ret'.kind = "status"
        /\ state = "error"
        /\ ~paused
        /\ tick_in'.proc
        /\ tick_in'.avail = "yes"
        /\ tick_in'.rd = "sample"
        /\ tick_in'.cb \in {"na", "return"}
        /\ ~ret'.error)
       => (state' = "logging" /\ ret'.state = "logging")]_vars

\* C35: the session state governs sample acceptance: a tick that ends in Idle,
\* Detected, Paused or Error appends no sample to the lap buffer and leaves
\* current_lap as it was.
C35_SamplesOnlyWhenLogging ==
    [][(last_op' = "run_once" /\ ret'.kind = "status" /\ state' # "logging")
       => /\ current_lap' = current_lap
          /\ lap_samples' \in {lap_samples, <<>>}]_vars

\* C36: a tick in which read() returns None or a dict without fields is no error
\* and no lap event: no error in the status, lap_completed false, on_lap_complete
\* not called, current_lap unchanged.
C36_NoDataIsNoEvent ==
    [][(/\ last_op' = "run_once"
        /\ ret'.kind = "status"
        /\ \/ tick_in'.rd = "none"
           \/ (tick_in'.rd = "sample" /\ ~tick_in'.telemetry.has_lap))
       => /\ ~ret'.error
          /\ ~ret'.lap_completed
          /\ cb_calls' = <<>>
          /\ current_lap' = current_lap]_vars

\* C37: in every reachable state of the loop, is_paused() is true if and only if
\* the session state is Paused.
C37_PausedFlagIffPausedState == paused <=> (state = "paused")

\* C38: the status a running run_once returns reflects the tracker at the moment
\* the tick returns: status.state is the session state, status.lap is
\* current_lap and status.samples_buffered is the buffer length.
C38_StatusIsSnapshotAtReturn ==
    [][(last_op' = "run_once" /\ ret'.kind = "status")
       => /\ ret'.state = state'
          /\ ret'.lap = current_lap'
          /\ ret'.samples_buffered = Len(lap_samples')]_vars

\* C39: the lap_summary passed to on_lap_complete describes the lap just
\* completed: its lap is the finished lap, which the last sample of lap_data
\* carries, not the lap of the incoming sample, and its samples_count is the
\* length of lap_data.
C39_SummaryDescribesFinishedLap ==
    [][(last_op' = "run_once" /\ ret'.kind = "status" /\ cb_calls' # <<>>)
       => LET call == cb_calls'[1]
              last_sample == call.lap_data[Len(call.lap_data)]
          IN /\ ~call.lap_summary.empty
             /\ call.lap_summary.samples_count = Len(call.lap_data)
             /\ call.lap_summary.lap = current_lap
             /\ call.lap_summary.lap = GetLap(last_sample)]_vars

\* ------------------------------------------------ further claims on Monitor
\* C40: whenever Monitor.start() returns after connect() succeeded (timeout of the
\* wait for the session id, stop request, exception in the main loop), stop()
\* has run and publisher.disconnect() was called.
C40_ReturnReleasesConnection ==
    [][(mon_pc' = "returned" /\ mon_pc \in {"waiting", "loop"})
       => mon_call'.disconnect]_vars

====
